---- MODULE Spec2Model ----
(***************************************************************************)
(* Model of sql.py: the typed column comparison operators, the clause     *)
(* order check of SqlBuilder (check_order), the shared SingletoneData     *)
(* (last_method, data) and the per-builder fragment list (SqlBuilder.sql). *)
(*                                                                         *)
(* A Python str is a sequence of pieces (TLA+ strings); concatenation is   *)
(* \o.  "-" and "?" are always pieces of their own, so that split('-') and *)
(* the placeholders of a statement text can be counted.                    *)
(***************************************************************************)
EXTENDS Integers, Sequences, FiniteSets, TLC

VARIABLES
    last_method,  \* SingletoneData.last_method (shared by all builders and columns)
    data,         \* SingletoneData.data: the bound parameters (shared)
    sql,          \* SqlBuilder.sql of each builder: its list of fragments
    clean,        \* history: every call since the statement was opened was accepted
    ev,           \* history: the class whose method ran last, and how it ended
    raised,       \* history: exceptions raised since the statement was opened
    select_columns, \* SqlBuilder.select_columns of each builder (unset before Select)
    drv,          \* the driver (SQLiteDb): what the last dispatch handed to it and did
    caller        \* the list the caller passed to FetchConstructed last

vars == <<last_method, data, sql, clean, ev, raised, select_columns, drv, caller>>

(***************************************************************************)
(* Bounds of the model.                                                    *)
(***************************************************************************)
MaxFrags == 4     \* fragments kept in one builder's list
MaxParams == 2    \* bound parameters kept in data
MaxRaised == 1    \* exceptions raised while one statement is built
MaxCmp == 1       \* parameters a standalone comparison leaves in data

(***************************************************************************)
(* Values: Python objects that occur as operands and as bound parameters.  *)
(* One record shape for all of them: k is the Python kind.                 *)
(***************************************************************************)
Num(n) == [k |-> "num", n |-> n, s |-> <<>>, kind |-> "", table |-> "", column |-> ""]
Str(s) == [k |-> "str", n |-> 0, s |-> s, kind |-> "", table |-> "", column |-> ""]
Col(kind, table, column) ==
    [k |-> "col", n |-> 0, s |-> <<>>, kind |-> kind, table |-> table, column |-> column]
NoVal == [k |-> "", n |-> 0, s |-> <<>>, kind |-> "", table |-> "", column |-> ""]

\* Db.Users / Db.Managers: the columns the model compares.
Users_id == Col("Integer", "Users", "id")
Users_login == Col("Text", "Users", "login")
Users_last_login_time == Col("DateTime", "Users", "last_login_time")
Managers_id == Col("Integer", "Managers", "id")
Managers_photo == Col("Text", "Managers", "photo")

LeftColumns == {Users_id, Users_login, Users_last_login_time}
RightColumns == {Managers_id}
Numbers == {Num(1)}
Texts == {Str(<<"?">>), Str(<<"2012", "-", "01", "-", "01">>)}
Literals == Numbers \cup Texts
Operands == Literals \cup RightColumns
CmpOps == {"lt", "le", "gt", "ge", "eq", "ne"}

(***************************************************************************)
(* Helpers on str values.                                                  *)
(***************************************************************************)
RECURSIVE Count(_, _)
Count(s, piece) ==
    IF s = <<>> THEN 0
    ELSE (IF Head(s) = piece THEN 1 ELSE 0) + Count(Tail(s), piece)

\* len(right.split('-'))
SplitLen(s) == Count(s, "-") + 1

RECURSIVE StrJoin(_)
\* ''.join(list of str)
StrJoin(l) == IF l = <<>> THEN <<>> ELSE Head(l) \o StrJoin(Tail(l))

RECURSIVE JoinSep(_, _)
\* sep.join(list of str)
JoinSep(sep, l) ==
    IF l = <<>> THEN <<>>
    ELSE IF Len(l) = 1 THEN Head(l)
    ELSE Head(l) \o sep \o JoinSep(sep, Tail(l))

\* ''.join((c.table_name, '.', c.column_name))
Qualified(c) == <<c.table, ".", c.column>>

(***************************************************************************)
(* Result of one comparison: the outcome ("ok" or the exception raised),   *)
(* the returned text, the parameters after the call, and (history) the     *)
(* values the call appended to the parameters.                             *)
(***************************************************************************)
Raise(exc, d) == [outcome |-> exc, sql |-> <<>>, data |-> d, bind |-> <<>>]
Return(text, d, pushed) == [outcome |-> "ok", sql |-> text, data |-> d, bind |-> pushed]

Column_lt(self, right, lm, d) ==
    LET r == IF right.k = "col" THEN Str(Qualified(right)) ELSE right
        left == Qualified(self)
    IN  Return(left \o <<" < ", "?">>, Append(d, r), <<r>>)

Column_le(self, right, lm, d) ==
    LET r == IF right.k = "col" THEN Str(Qualified(right)) ELSE right
        left == Qualified(self)
    IN  Return(left \o <<" <= ", "?">>, Append(d, r), <<r>>)

Column_gt(self, right, lm, d) ==
    LET r == IF right.k = "col" THEN Str(Qualified(right)) ELSE right
        left == Qualified(self)
    IN  Return(left \o <<" > ", "?">>, Append(d, r), <<r>>)

Column_ge(self, right, lm, d) ==
    LET r == IF right.k = "col" THEN Str(Qualified(right)) ELSE right
        left == Qualified(self)
    IN  Return(left \o <<" >= ", "?">>, Append(d, r), <<r>>)

Column_eq(self, right, lm, d) ==
    LET r == IF right.k = "col"
             THEN (IF lm # "Update" THEN Str(Qualified(right))
                                    ELSE Str(<<right.column>>))
             ELSE right
        left == IF lm # "Update" THEN Qualified(self) ELSE <<self.column>>
        text == left \o <<" = ">>
    IN  IF lm = "Join"
        THEN \* sql += right: str + number raises TypeError
             IF r.k = "str" THEN Return(text \o r.s, d, <<>>)
                            ELSE Raise("TypeError", d)
        ELSE Return(text \o <<"?">>, Append(d, r), <<r>>)

Column_ne(self, right, lm, d) ==
    LET r == IF right.k = "col"
             THEN (IF lm # "Update" THEN Str(Qualified(right))
                                    ELSE Str(<<right.column>>))
             ELSE right
        left == IF lm # "Update" THEN Qualified(self) ELSE <<self.column>>
        text == left \o <<" != ">>
    IN  IF lm = "Join"
        THEN IF r.k = "str" THEN Return(text \o r.s, d, <<>>)
                            ELSE Raise("TypeError", d)
        ELSE Return(text \o <<"?">>, Append(d, r), <<r>>)

\* The method of class Column that the sign op names.
Column_op(op, self, right, lm, d) ==
    CASE op = "lt" -> Column_lt(self, right, lm, d)
      [] op = "le" -> Column_le(self, right, lm, d)
      [] op = "gt" -> Column_gt(self, right, lm, d)
      [] op = "ge" -> Column_ge(self, right, lm, d)
      [] op = "eq" -> Column_eq(self, right, lm, d)
      [] op = "ne" -> Column_ne(self, right, lm, d)

(***************************************************************************)
(* Column.In / Column.NotIn: the text only; sdata.data is not touched.     *)
(***************************************************************************)
\* str(v) of a literal.
PyStr(v) == IF v.k = "num" THEN <<ToString(v.n)>> ELSE v.s
\* repr(v) of a literal, as str(tuple) renders its members.
PyRepr(v) == IF v.k = "num" THEN <<ToString(v.n)>> ELSE <<"'">> \o v.s \o <<"'">>

\* str(tuple(arg))
TupleStr(arg) ==
    LET members == [i \in DOMAIN arg |-> PyRepr(arg[i])]
    IN  IF Len(arg) = 1 THEN <<"(">> \o members[1] \o <<",)">>
        ELSE <<"(">> \o JoinSep(<<", ">>, members) \o <<")">>

\* In with the members left out of the text.
Column_In_Placeholder(self, arg) == Qualified(self) \o <<" IN ", "(", "?", ")">>

Column_In(self, arg) == Qualified(self) \o <<" IN ">> \o TupleStr(arg)

Column_NotIn(self, arg) == Qualified(self) \o <<" NOT IN ">> \o TupleStr(arg)

(***************************************************************************)
(* The validate_type decorators: "pass" or the exception raised.           *)
(***************************************************************************)
\* The Integer check with the isinstance test dropped: text passes.
IntegerColumn_validate_type_AcceptsText(right) ==
    IF right.k # "num" /\ right.k # "col" /\ right.k # "str" THEN "InvalidType" ELSE "pass"

IntegerColumn_validate_type(right) ==
    IF right.k # "num" /\ right.k # "col" THEN "InvalidType" ELSE "pass"

\* The Text check with a number let through.
StringColumn_validate_type_AcceptsNumber(right) ==
    IF right.k # "str" /\ right.k # "col" /\ right.k # "num" THEN "InvalidType" ELSE "pass"

StringColumn_validate_type(right) ==
    IF right.k # "str" /\ right.k # "col" THEN "InvalidType" ELSE "pass"

\* (not Column and not basestring) or len(right.split('-')) != 3:
\* a Column has no split, so the second operand raises AttributeError for it.
\* The DateTime check without the date-shape test: any text passes.
DateTimeColumn_validate_type_AnyText(right) ==
    IF right.k # "col" /\ right.k # "str" THEN "InvalidType"
    ELSE IF right.k = "col" THEN "AttributeError"
    ELSE "pass"

DateTimeColumn_validate_type(right) ==
    IF right.k # "col" /\ right.k # "str" THEN "InvalidType"
    ELSE IF right.k = "col" THEN "AttributeError"
    ELSE IF SplitLen(right.s) # 3 THEN "InvalidType"
    ELSE "pass"

IntegerColumn_op(op, self, right, lm, d) ==
    LET v == IntegerColumn_validate_type(right)
    IN  IF v # "pass" THEN Raise(v, d) ELSE Column_op(op, self, right, lm, d)

\* StringColumn with __ge__ inherited from Column after the type check.
StringColumn_op_GeInherited(op, self, right, lm, d) ==
    IF op = "lt" THEN Raise("InvalidType", d)
    ELSE LET v == StringColumn_validate_type(right)
         IN  IF v # "pass" THEN Raise(v, d)
             ELSE IF op \in {"le", "gt"} THEN Raise("InvalidType", d)
             ELSE Column_op(op, self, right, lm, d)

StringColumn_op(op, self, right, lm, d) ==
    IF op = "lt" THEN Raise("InvalidType", d)
    ELSE LET v == StringColumn_validate_type(right)
         IN  IF v # "pass" THEN Raise(v, d)
             ELSE IF op \in {"le", "gt", "ge"} THEN Raise("InvalidType", d)
             ELSE Column_op(op, self, right, lm, d)

DateTimeColumn_op(op, self, right, lm, d) ==
    LET v == DateTimeColumn_validate_type(right)
    IN  IF v # "pass" THEN Raise(v, d) ELSE Column_op(op, self, right, lm, d)

\* self <op> right, dispatched on the class of self.
Compare(op, self, right, lm, d) ==
    CASE self.kind = "Integer" -> IntegerColumn_op(op, self, right, lm, d)
      [] self.kind = "Text" -> StringColumn_op(op, self, right, lm, d)
      [] self.kind = "DateTime" -> DateTimeColumn_op(op, self, right, lm, d)

(***************************************************************************)
(* Tables: the class name (MetaTable gives it to the columns as            *)
(* table_name), get_name() (the lower-cased class name) and the columns of *)
(* `all`.  MetaTable fills `all` in the iteration order of the class       *)
(* dict, which the language does not fix: any order of the columns.        *)
(***************************************************************************)
Users == [cls |-> "Users", columns |-> {Users_id, Users_login, Users_last_login_time}]
Managers == [cls |-> "Managers", columns |-> {Managers_id, Managers_photo}]
Tables == {Users, Managers}

get_name(table) == IF table.cls = "Users" THEN "users" ELSE "managers"

\* The possible values of table.all.
AllOrders(table) ==
    {l \in [1..Cardinality(table.columns) -> table.columns] :
        \A i, j \in DOMAIN l : i # j => l[i] # l[j]}

\* Column.create of each class.
create(c) ==
    CASE c.kind = "Integer" -> <<c.column, " INT">>
      [] c.kind = "Text" -> <<c.column, " TEXT">>
      [] c.kind = "DateTime" -> <<" ", c.column, " DATETIME">>

Builders == {1, 2}

\* A fragment: its text and (history) the values its placeholders were rendered for.
Frag(text, bind) == [text |-> text, bind |-> bind]

ClassOf(c) ==
    CASE c.kind = "Integer" -> "IntegerColumn"
      [] c.kind = "Text" -> "StringColumn"
      [] c.kind = "DateTime" -> "DateTimeColumn"

Event(cls, outcome) == [cls |-> cls, outcome |-> outcome]

\* An attribute that may not exist yet: <<>> when it was never assigned, <<v>> when
\* it holds v.  SqlBuilder.__init__ does not assign select_columns.
Unset == <<>>
Assigned(v) == <<v>>

\* The driver before any dispatch: method is the SqlBuilder method that dispatched,
\* sql and data are SQLiteDb.sql and SQLiteDb.data, calls the driver operations
\* invoked by the last dispatch, in order.
NoDispatch ==
    [method |-> "", sql |-> <<>>, data |-> <<>>, calls |-> <<>>, outcome |-> "ok",
     rows |-> <<>>]

\* The caller's list object: `given` is what it held when it was passed to
\* FetchConstructed; while `aliased`, SingletoneData.data is that very object, and
\* the caller reads in it whatever the shared params hold.
NoCaller == [given |-> <<>>, aliased |-> FALSE]
CallerList == IF caller.aliased THEN data ELSE caller.given

Init ==
    /\ last_method = ""
    /\ data = <<>>
    /\ sql = [b \in Builders |-> <<>>]
    /\ clean = TRUE
    /\ ev = Event("", "ok")
    /\ raised = 0
    /\ select_columns = [b \in Builders |-> Unset]
    /\ drv = NoDispatch
    /\ caller = NoCaller

\* A call ends with an exception: the caller catches it and goes on, at most
\* MaxRaised times while one statement is built.
Raising ==
    /\ raised < MaxRaised
    /\ raised' = raised + 1

(***************************************************************************)
(* A comparison `self <op> right` written as a statement of its own: the   *)
(* returned text is dropped, the pushed parameter stays in data.           *)
(***************************************************************************)
Cmp(op, self, right) ==
    LET res == Compare(op, self, right, last_method, data)
    IN  /\ Len(res.data) <= MaxCmp
        /\ data' = res.data
        /\ clean' = FALSE
        /\ ev' = Event(ClassOf(self), res.outcome)
        /\ IF res.outcome = "ok" THEN raised' = raised ELSE Raising
        /\ UNCHANGED <<last_method, sql, select_columns, drv, caller>>

(***************************************************************************)
(* The condition arguments of a clause call `q.Where(c1, c2)`: Python      *)
(* evaluates them left to right, in the state the previous call left,      *)
(* before it calls the method.  conds is a sequence of <<op, self, right>>.*)
(* The first exception ends the evaluation; the parameters pushed by the   *)
(* arguments before it stay in data.                                       *)
(***************************************************************************)
RECURSIVE EvalArgs(_, _, _)
EvalArgs(conds, lm, d) ==
    IF conds = <<>>
    THEN [outcome |-> "ok", cls |-> "SqlBuilder", texts |-> <<>>, bind |-> <<>>, data |-> d]
    ELSE LET c == Head(conds)
             res == Compare(c[1], c[2], c[3], lm, d)
         IN  IF res.outcome # "ok"
             THEN [outcome |-> res.outcome, cls |-> ClassOf(c[2]), texts |-> <<>>,
                   bind |-> <<>>, data |-> res.data]
             ELSE LET rest == EvalArgs(Tail(conds), lm, res.data)
                  IN  [rest EXCEPT !.texts = <<res.sql>> \o @, !.bind = res.bind \o @]

(***************************************************************************)
(* check_order.nested: what the decorator decides for the method called    *)
(* `name` when last_method is lm: raise InvalidOrderError, or the new       *)
(* last_method and whether clear_data() runs.                              *)
(***************************************************************************)
Openers == {"Select", "Delete", "Update", "Insert", "CreateTable", "DropTable"}
Joins == {"InnerJoin", "LeftJoin", "RightJoin", "OuterJoin"}

Pass(lm, clear) == [raise |-> FALSE, last |-> lm, clear |-> clear]
Wrong(lm) == [raise |-> TRUE, last |-> lm, clear |-> FALSE]

nested(name, lm) ==
    CASE name \in Openers -> Pass(name, TRUE)
      [] name = "From" ->
            IF lm \notin {"Select", "Delete"} THEN Wrong(lm) ELSE Pass("From", FALSE)
      [] name = "Where" ->
            IF lm \notin {"From", "Set", "Update"} THEN Wrong(lm) ELSE Pass("Where", FALSE)
      [] name = "And" ->
            IF lm \notin {"Where", "Or", "And"} THEN Wrong(lm) ELSE Pass("And", FALSE)
      [] name = "Or" ->
            IF lm \notin {"Where", "And", "Or"} THEN Wrong(lm) ELSE Pass("Or", FALSE)
      [] name \in Joins ->
            IF lm # "From" THEN Wrong(lm) ELSE Pass("Join", FALSE)
      [] name = "On" ->
            IF lm # "Join" THEN Wrong(lm) ELSE Pass("On", FALSE)
      [] OTHER -> Pass(lm, FALSE)

\* The decorator with one branch altered: a clause accepted in a state the table
\* forbids, a clause rejected in a state the table allows, an opening clause that
\* keeps the parameters.
check_order_AndAfterFrom(name, lm) ==
    IF name = "And" /\ lm = "From" THEN Pass("And", FALSE) ELSE nested(name, lm)

check_order_FromNotAfterDelete(name, lm) ==
    IF name = "From" /\ lm = "Delete" THEN Wrong(lm) ELSE nested(name, lm)

check_order_UpdateKeepsData(name, lm) ==
    IF name = "Update" THEN Pass("Update", FALSE) ELSE nested(name, lm)

\* Select opening a statement without clear_data().
check_order_SelectKeepsData(name, lm) ==
    IF name = "Select" THEN Pass("Select", FALSE) ELSE nested(name, lm)

\* Or rejected after And; Values recorded as a state.
check_order_OrNotAfterAnd(name, lm) ==
    IF name = "Or" /\ lm = "And" THEN Wrong(lm) ELSE nested(name, lm)

check_order_ValuesRecorded(name, lm) ==
    IF name = "Values" THEN Pass("Values", FALSE) ELSE nested(name, lm)

\* The decorator: the decorated method is nested.
check_order(name, lm) == nested(name, lm)

(***************************************************************************)
(* A call of a decorated method of builder b: the arguments are evaluated, *)
(* then check_order.nested runs, then the body appends the fragment        *)
(* keyword + body(texts of the arguments).                                 *)
(***************************************************************************)
Body(keyword, sep, texts) == keyword \o JoinSep(sep, texts)

\* The fragment list as an attribute of the class: one list for all builders.
Decorated_SharedFragments(b, name, conds, keyword, sep) ==
    LET a == EvalArgs(conds, last_method, data)
        co == check_order(name, last_method)
        base == IF co.clear THEN <<>> ELSE sql[b]
    IN  /\ Len(a.data) <= MaxParams
        /\ UNCHANGED <<drv, caller>>
        /\ IF a.outcome # "ok"
           THEN /\ data' = a.data
                /\ clean' = FALSE
                /\ ev' = Event(a.cls, a.outcome)
                /\ Raising
                /\ UNCHANGED <<last_method, sql>>
           ELSE IF co.raise
           THEN /\ data' = a.data
                /\ clean' = FALSE
                /\ ev' = Event("SqlBuilder", "InvalidOrder")
                /\ Raising
                /\ UNCHANGED <<last_method, sql>>
           ELSE /\ Len(base) < MaxFrags
                /\ last_method' = co.last
                /\ data' = IF co.clear THEN <<>> ELSE a.data
                /\ sql' = [x \in Builders |->
                              Append(base, Frag(Body(keyword, sep, a.texts), a.bind))]
                /\ clean' = (co.clear \/ clean)
                /\ raised' = IF co.clear THEN 0 ELSE raised
                /\ ev' = Event("SqlBuilder", "ok")

\* The decorator recording the method's name before it checks the order.
Decorated_MarksBeforeCheck(b, name, conds, keyword, sep) ==
    LET a == EvalArgs(conds, last_method, data)
        co == check_order(name, last_method)
        base == IF co.clear THEN <<>> ELSE sql[b]
    IN  /\ Len(a.data) <= MaxParams
        /\ UNCHANGED <<drv, caller>>
        /\ IF a.outcome # "ok"
           THEN /\ data' = a.data
                /\ clean' = FALSE
                /\ ev' = Event(a.cls, a.outcome)
                /\ Raising
                /\ UNCHANGED <<last_method, sql>>
           ELSE IF co.raise
           THEN /\ data' = a.data
                /\ clean' = FALSE
                /\ ev' = Event("SqlBuilder", "InvalidOrder")
                /\ Raising
                /\ last_method' = name
                /\ UNCHANGED sql
           ELSE /\ Len(base) < MaxFrags
                /\ last_method' = co.last
                /\ data' = IF co.clear THEN <<>> ELSE a.data
                /\ sql' = [sql EXCEPT ![b] =
                              Append(base, Frag(Body(keyword, sep, a.texts), a.bind))]
                /\ clean' = (co.clear \/ clean)
                /\ raised' = IF co.clear THEN 0 ELSE raised
                /\ ev' = Event("SqlBuilder", "ok")

Decorated(b, name, conds, keyword, sep) ==
    LET a == EvalArgs(conds, last_method, data)
        co == check_order(name, last_method)
        base == IF co.clear THEN <<>> ELSE sql[b]
    IN  /\ Len(a.data) <= MaxParams
        /\ UNCHANGED <<drv, caller>>
        /\ IF a.outcome # "ok"
           THEN /\ data' = a.data
                /\ clean' = FALSE
                /\ ev' = Event(a.cls, a.outcome)
                /\ Raising
                /\ UNCHANGED <<last_method, sql>>
           ELSE IF co.raise
           THEN /\ data' = a.data
                /\ clean' = FALSE
                /\ ev' = Event("SqlBuilder", "InvalidOrder")
                /\ Raising
                /\ UNCHANGED <<last_method, sql>>
           ELSE /\ Len(base) < MaxFrags
                /\ last_method' = co.last
                /\ data' = IF co.clear THEN <<>> ELSE a.data
                /\ sql' = [sql EXCEPT ![b] =
                              Append(base, Frag(Body(keyword, sep, a.texts), a.bind))]
                /\ clean' = (co.clear \/ clean)
                /\ raised' = IF co.clear THEN 0 ELSE raised
                /\ ev' = Event("SqlBuilder", "ok")

\* The arguments the model passes to the clauses that take columns or tables.
SelectLists == {<<Users_id>>, <<Users_id, Managers_id>>}
FromLists == {<<Users>>}
StatementTables == {Users}
CreateTables == {Managers}
JoinTables == {Managers}

Select(b, cols) ==
    LET columns == [i \in DOMAIN cols |-> Qualified(cols[i])]
    IN  /\ Decorated(b, "Select", <<>>,
                     <<"SELECT ">> \o JoinSep(<<", ">>, columns), <<>>)
        /\ select_columns' = [select_columns EXCEPT ![b] = Assigned(columns)]

Update(b, table) ==
    /\ Decorated(b, "Update", <<>>, <<"UPDATE ", get_name(table), " SET ">>, <<>>)
    /\ UNCHANGED select_columns

Insert(b, table) ==
    /\ Decorated(b, "Insert", <<>>, <<"INSERT INTO ", get_name(table), " ">>, <<>>)
    /\ UNCHANGED select_columns

Delete(b) ==
    /\ Decorated(b, "Delete", <<>>, <<"DELETE ">>, <<>>)
    /\ UNCHANGED select_columns

CreateTable(b, table, all) ==
    LET columns == [i \in DOMAIN all |-> create(all[i])]
    IN  /\ Decorated(b, "CreateTable", <<>>,
                     <<"CREATE TABLE ", get_name(table), " (">>
                         \o JoinSep(<<", ">>, columns) \o <<")">>, <<>>)
        /\ UNCHANGED select_columns

DropTable(b, table) ==
    /\ Decorated(b, "DropTable", <<>>, <<"DROP TABLE IF EXISTS ", get_name(table)>>, <<>>)
    /\ UNCHANGED select_columns

From(b, tables) ==
    LET names == [i \in DOMAIN tables |-> <<get_name(tables[i])>>]
    IN  /\ Decorated(b, "From", <<>>, <<" FROM ">> \o JoinSep(<<", ">>, names), <<>>)
        /\ UNCHANGED select_columns

Where(b, conds) ==
    /\ Decorated(b, "Where", conds, <<" WHERE ">>, <<>>)
    /\ UNCHANGED select_columns

InnerJoin(b, table) ==
    /\ Decorated(b, "InnerJoin", <<>>, <<" INNER JOIN ", get_name(table)>>, <<>>)
    /\ UNCHANGED select_columns

OuterJoin(b, table) ==
    /\ Decorated(b, "OuterJoin", <<>>, <<" OUTER JOIN ", get_name(table)>>, <<>>)
    /\ UNCHANGED select_columns

LeftJoin(b, table) ==
    /\ Decorated(b, "LeftJoin", <<>>, <<" LEFT JOIN ", get_name(table)>>, <<>>)
    /\ UNCHANGED select_columns

RightJoin(b, table) ==
    /\ Decorated(b, "RightJoin", <<>>, <<" RIGHT JOIN ", get_name(table)>>, <<>>)
    /\ UNCHANGED select_columns

On(b, conds) ==
    /\ Decorated(b, "On", conds, <<" ON ">>, <<>>)
    /\ UNCHANGED select_columns

And(b, conds) ==
    /\ Decorated(b, "And", conds, <<" AND ">>, <<>>)
    /\ UNCHANGED select_columns

Or(b, conds) ==
    /\ Decorated(b, "Or", conds, <<" OR ">>, <<>>)
    /\ UNCHANGED select_columns

Set(b, conds) ==
    /\ Decorated(b, "Set", conds, <<>>, <<", ">>)
    /\ UNCHANGED select_columns



\* LeftBracket as if it were a clause of the order machine: it records its name.
LeftBracket_Recorded(b, conds) ==
    LET a == EvalArgs(conds, last_method, data)
    IN  /\ Len(a.data) <= MaxParams
        /\ UNCHANGED <<select_columns, drv, caller>>
        /\ IF a.outcome # "ok"
           THEN /\ data' = a.data
                /\ clean' = FALSE
                /\ ev' = Event(a.cls, a.outcome)
                /\ Raising
                /\ UNCHANGED <<last_method, sql>>
           ELSE /\ Len(sql[b]) + 2 <= MaxFrags
                /\ data' = a.data
                /\ sql' = [sql EXCEPT ![b] =
                              Append(Append(sql[b], Frag(<<" (">>, <<>>)),
                                     Frag(StrJoin(a.texts), a.bind))]
                /\ ev' = Event("SqlBuilder", "ok")
                /\ last_method' = "LeftBracket"
                /\ UNCHANGED <<clean, raised>>

\* Not decorated: no order check, two appends.
LeftBracket(b, conds) ==
    LET a == EvalArgs(conds, last_method, data)
    IN  /\ Len(a.data) <= MaxParams
        /\ UNCHANGED <<select_columns, drv, caller>>
        /\ IF a.outcome # "ok"
           THEN /\ data' = a.data
                /\ clean' = FALSE
                /\ ev' = Event(a.cls, a.outcome)
                /\ Raising
                /\ UNCHANGED <<last_method, sql>>
           ELSE /\ Len(sql[b]) + 2 <= MaxFrags
                /\ data' = a.data
                /\ sql' = [sql EXCEPT ![b] =
                              Append(Append(sql[b], Frag(<<" (">>, <<>>)),
                                     Frag(StrJoin(a.texts), a.bind))]
                /\ ev' = Event("SqlBuilder", "ok")
                /\ UNCHANGED <<last_method, clean, raised>>

\* RightBracket putting its text in front of the fragments.
RightBracket_Prepends(b) ==
    /\ Len(sql[b]) < MaxFrags
    /\ sql' = [sql EXCEPT ![b] = <<Frag(<<") ">>, <<>>)>> \o sql[b]]
    /\ ev' = Event("SqlBuilder", "ok")
    /\ UNCHANGED <<last_method, data, clean, raised, select_columns, drv, caller>>

RightBracket(b) ==
    /\ Len(sql[b]) < MaxFrags
    /\ sql' = [sql EXCEPT ![b] = Append(sql[b], Frag(<<") ">>, <<>>))]
    /\ ev' = Event("SqlBuilder", "ok")
    /\ UNCHANGED <<last_method, data, clean, raised, select_columns, drv, caller>>

\* Decorated, but check_order has no branch for these names.
Columns(b, cols) ==
    LET names == [i \in DOMAIN cols |-> <<cols[i].column>>]
    IN  /\ Decorated(b, "Columns", <<>>,
                     <<" (">> \o JoinSep(<<", ">>, names) \o <<") ">>, <<>>)
        /\ UNCHANGED select_columns

Values(b, vals) ==
    LET args == [i \in DOMAIN vals |->
                    IF vals[i].k = "str" THEN <<"'">> \o vals[i].s \o <<"'">>
                                         ELSE PyStr(vals[i])]
    IN  /\ Decorated(b, "Values", <<>>,
                     <<"VALUES (">> \o JoinSep(<<", ">>, args) \o <<")">>, <<>>)
        /\ UNCHANGED select_columns

\* self.In(arg) / self.NotIn(arg) written as a statement of its own.
In(self, arg) ==
    /\ ev' = Event(ClassOf(self), "ok")
    /\ UNCHANGED <<last_method, data, sql, clean, raised, select_columns, drv, caller>>

NotIn(self, arg) ==
    /\ ev' = Event(ClassOf(self), "ok")
    /\ UNCHANGED <<last_method, data, sql, clean, raised, select_columns, drv, caller>>

(***************************************************************************)
(* SQLiteDb.Fetch(sqlbuilder, result, commit): the statement text and the  *)
(* shared params are handed to the driver, then the driver operations run  *)
(* inside try/finally.  The driver is an external collaborator: `fail`     *)
(* names the operation that raises in this dispatch ("none" when no one    *)
(* does).  newdata is the list the params are at the call (FetchConstructed*)
(* has assigned the caller's list before).                                 *)
(***************************************************************************)
Failures == {"none", "open", "execute", "commit", "fetch", "close"}

\* name.split('.')[-1] if name.find('.') != -1 else name
LastSegment(name) ==
    LET dots == {i \in DOMAIN name : name[i] = "."}
    IN  IF dots = {} THEN name
        ELSE SubSeq(name, (CHOOSE i \in dots : \A j \in dots : j <= i) + 1, Len(name))

\* The rows the cursor yields for a statement that selects n columns: one row,
\* whose i-th cell holds the value of the i-th selected column (written i).
CursorRows(n) == << [i \in 1..n |-> i] >>

\* Result(): an object without attributes, as the function from its attribute
\* names to their values.
Result == [name \in {} |-> 0]

\* for i, name in enumerate(select_columns): setattr(myobj, last segment, row[i])
RECURSIVE SetAttrs(_, _, _, _)
SetAttrs(myobj, names, row, i) ==
    IF i > Len(names) THEN myobj
    ELSE SetAttrs((LastSegment(names[i]) :> row[i]) @@ myobj, names, row, i + 1)

\* SQLiteDb._GetResults(select_columns); Select has recorded table.column names.
_GetResults(columns) ==
    LET cursor == CursorRows(Len(columns))
    IN  [r \in DOMAIN cursor |-> SetAttrs(Result, columns, cursor[r], 1)]

\* Fetch without the finally clause: the connection is closed on the normal path only.
Fetch_NoFinally(b, method, result, commit, newdata, fail) ==
    LET text == StrJoin([i \in DOMAIN sql[b] |-> sql[b][i].text])
        upto_query == IF fail = "open" THEN <<"open">> ELSE <<"open", "execute">>
        upto_commit == IF commit /\ fail \notin {"open", "execute"}
                       THEN Append(upto_query, "commit") ELSE upto_query
        stopped == fail \in {"open", "execute"} \/ (commit /\ fail = "commit")
        noattr == ~stopped /\ result /\ select_columns[b] = Unset
        upto_results == IF result /\ ~stopped /\ ~noattr
                        THEN Append(upto_commit, "fetch") ELSE upto_commit
        outcome == IF noattr THEN "AttributeError"
                   ELSE IF stopped \/ (result /\ fail = "fetch") \/ fail = "close"
                   THEN "DriverError" ELSE "ok"
        returned == ~noattr /\ ~stopped /\ ~(result /\ fail = "fetch")
    IN  /\ drv' = [method |-> method, sql |-> text, data |-> newdata,
                   calls |-> IF returned THEN Append(upto_results, "close")
                                         ELSE upto_results,
                   outcome |-> outcome,
                   rows |-> IF result /\ outcome = "ok"
                            THEN _GetResults(select_columns[b][1]) ELSE <<>>]
        /\ data' = newdata
        /\ ev' = Event("SQLiteDb", outcome)
        /\ IF outcome = "ok" THEN raised' = raised ELSE Raising
        /\ UNCHANGED <<last_method, sql, select_columns>>

Fetch(b, method, result, commit, newdata, fail) ==
    LET text == StrJoin([i \in DOMAIN sql[b] |-> sql[b][i].text])
        upto_query == IF fail = "open" THEN <<"open">> ELSE <<"open", "execute">>
        upto_commit == IF commit /\ fail \notin {"open", "execute"}
                       THEN Append(upto_query, "commit") ELSE upto_query
        stopped == fail \in {"open", "execute"} \/ (commit /\ fail = "commit")
        \* sqlbuilder.select_columns is read before _GetResults is called
        noattr == ~stopped /\ result /\ select_columns[b] = Unset
        upto_results == IF result /\ ~stopped /\ ~noattr
                        THEN Append(upto_commit, "fetch") ELSE upto_commit
        outcome == IF noattr THEN "AttributeError"
                   ELSE IF stopped \/ (result /\ fail = "fetch") \/ fail = "close"
                   THEN "DriverError" ELSE "ok"
    IN  /\ drv' = [method |-> method, sql |-> text, data |-> newdata,
                   calls |-> Append(upto_results, "close"), outcome |-> outcome,
                   \* an exception (also one of the finally clause) replaces the return
                   rows |-> IF result /\ outcome = "ok"
                            THEN _GetResults(select_columns[b][1]) ELSE <<>>]
        /\ data' = newdata
        /\ ev' = Event("SQLiteDb", outcome)
        /\ IF outcome = "ok" THEN raised' = raised ELSE Raising
        /\ UNCHANGED <<last_method, sql, select_columns>>

\* Execute with the flags of FetchFrom.
Execute_Fetching(b, fail) ==
    /\ Fetch(b, "Execute", TRUE, FALSE, data, fail)
    /\ UNCHANGED <<clean, caller>>

Execute(b, fail) ==
    /\ Fetch(b, "Execute", FALSE, TRUE, data, fail)
    /\ UNCHANGED <<clean, caller>>

FetchFrom(b, fail) ==
    /\ Fetch(b, "FetchFrom", TRUE, FALSE, data, fail)
    /\ UNCHANGED <<clean, caller>>

\* FetchConstructed assigning a copy of the caller's list (self.sdata.data = data[:]).
FetchConstructed_Copies(b, newdata, fail) ==
    /\ Len(newdata) <= MaxParams
    /\ Fetch(b, "FetchConstructed", TRUE, FALSE, newdata, fail)
    /\ clean' = FALSE
    /\ caller' = [given |-> newdata, aliased |-> FALSE]

\* FetchConstructed without the assignment of the caller's list.
FetchConstructed_KeepsParams(b, newdata, fail) ==
    /\ Len(newdata) <= MaxParams
    /\ Fetch(b, "FetchConstructed", TRUE, FALSE, data, fail)
    /\ clean' = FALSE
    /\ caller' = [given |-> newdata, aliased |-> FALSE]

FetchConstructed(b, newdata, fail) ==
    /\ Len(newdata) <= MaxParams
    /\ Fetch(b, "FetchConstructed", TRUE, FALSE, newdata, fail)
    /\ clean' = FALSE
    \* self.sdata.data = data: the shared params are the caller's list from now on
    /\ caller' = [given |-> newdata, aliased |-> TRUE]

(***************************************************************************)
(* Spec: one builder; every order-checked clause call, its conditions      *)
(* written as its arguments.                                               *)
(***************************************************************************)
\* The argument lists of the calls that take conditions.
CondLists ==
    { <<>>,
      <<<<"eq", Users_id, Num(1)>>>>,
      <<<<"lt", Users_login, Num(1)>>>> }
OnLists ==
    { <<<<"eq", Users_id, Managers_id>>>>,
      <<<<"eq", Users_login, Str(<<"?">>)>>>>,
      <<<<"eq", Users_id, Num(1)>>>> }
SetLists ==
    { <<<<"eq", Users_login, Str(<<"?">>)>>>>,
      <<<<"eq", Users_login, Str(<<"?">>)>>, <<"eq", Users_id, Num(1)>>>> }
BracketLists == {<<>>, <<<<"eq", Users_id, Num(1)>>>>}

Opening(b) ==
    \/ \E cols \in SelectLists : Select(b, cols)
    \/ \E table \in StatementTables : Update(b, table)
    \/ \E table \in StatementTables : Insert(b, table)
    \/ Delete(b)
    \/ \E table \in CreateTables : \E all \in AllOrders(table) : CreateTable(b, table, all)
    \/ \E table \in StatementTables : DropTable(b, table)

Joining(b) ==
    \/ \E table \in JoinTables : InnerJoin(b, table)
    \/ \E table \in JoinTables : OuterJoin(b, table)
    \/ \E table \in JoinTables : LeftJoin(b, table)
    \/ \E table \in JoinTables : RightJoin(b, table)

Next ==
    \/ Opening(1)
    \/ \E tables \in FromLists : From(1, tables)
    \/ Joining(1)
    \/ \E conds \in CondLists : Where(1, conds)
    \/ \E conds \in OnLists : On(1, conds)
    \/ \E conds \in CondLists : And(1, conds)
    \/ \E conds \in CondLists : Or(1, conds)

Spec == Init /\ [][Next]_vars

(***************************************************************************)
(* SpecSet: the clauses check_order has no branch for (Set and the         *)
(* brackets), between the order-checked clauses of one builder.            *)
(***************************************************************************)
NextSet ==
    \/ Opening(1)
    \/ \E conds \in SetLists : Set(1, conds)
    \/ \E conds \in BracketLists : LeftBracket(1, conds)
    \/ RightBracket(1)
    \/ \E conds \in CondLists : Where(1, conds)
    \/ \E tables \in FromLists : From(1, tables)
    \/ \E table \in JoinTables : InnerJoin(1, table)
    \/ On(1, <<>>)
    \/ And(1, <<>>)

SpecSet == Init /\ [][NextSet]_vars

(***************************************************************************)
(* SpecCmp: every comparison of the model's columns and operands, written  *)
(* as a statement of its own between the order-checked clause calls of     *)
(* one builder (made without condition arguments).                         *)
(***************************************************************************)
NextCmp ==
    \/ \E op \in CmpOps, self \in LeftColumns, right \in Operands : Cmp(op, self, right)
    \/ Select(1, <<Users_id>>)
    \/ \E table \in StatementTables : Update(1, table)
    \/ \E table \in StatementTables : Insert(1, table)
    \/ Delete(1)
    \/ \E table \in StatementTables : DropTable(1, table)
    \/ \E tables \in FromLists : From(1, tables)
    \/ \E table \in JoinTables : InnerJoin(1, table)
    \/ Where(1, <<>>)
    \/ On(1, <<>>)
    \/ And(1, <<>>)
    \/ Or(1, <<>>)

SpecCmp == Init /\ [][NextCmp]_vars

(***************************************************************************)
(* SpecInsert: INSERT statements of one builder, built with Columns and    *)
(* Values and dispatched with Execute; membership conditions are           *)
(* constructed and a standalone comparison may push a parameter in         *)
(* between.                                                                *)
(***************************************************************************)
InLists == {<<Num(1)>>, <<Num(1), Str(<<"?">>)>>}
ColumnLists == {<<Users_id, Users_login>>}
ValueLists == {<<Num(1), Str(<<"?">>)>>}

NextInsert ==
    \/ \E table \in StatementTables : Insert(1, table)
    \/ \E cols \in ColumnLists : Columns(1, cols)
    \/ \E vals \in ValueLists : Values(1, vals)
    \/ \E self \in LeftColumns, arg \in InLists : In(self, arg)
    \/ \E self \in LeftColumns, arg \in InLists : NotIn(self, arg)
    \/ \E right \in Numbers : Cmp("eq", Users_id, right)
    \/ Execute(1, "none")

SpecInsert == Init /\ [][NextInsert]_vars

(***************************************************************************)
(* SpecDispatch: one builder; a SELECT statement is built and dispatched   *)
(* with Execute, FetchFrom and FetchConstructed, each driver operation     *)
(* failing or not.                                                         *)
(***************************************************************************)
NewParams == {<<>>, <<Num(2)>>}
DispatchConds == {<<>>, <<<<"eq", Users_id, Num(1)>>>>}

NextDispatch ==
    \/ Select(1, <<Users_id>>)
    \/ \E tables \in FromLists : From(1, tables)
    \/ \E conds \in DispatchConds : Where(1, conds)
    \/ \E fail \in Failures \ {"fetch"} : Execute(1, fail)
    \/ \E fail \in Failures \ {"commit"} : FetchFrom(1, fail)
    \/ \E newdata \in NewParams, fail \in Failures \ {"commit"} :
           FetchConstructed(1, newdata, fail)

SpecDispatch == Init /\ [][NextDispatch]_vars

(***************************************************************************)
(* SpecGroup: one builder; WHERE conditions chained with And and Or and    *)
(* grouped with brackets.                                                  *)
(***************************************************************************)
NextGroup ==
    \/ Select(1, <<Users_id>>)
    \/ \E table \in StatementTables : Update(1, table)
    \/ \E tables \in FromLists : From(1, tables)
    \/ \E conds \in CondLists : Where(1, conds)
    \/ \E conds \in CondLists : And(1, conds)
    \/ \E conds \in CondLists : Or(1, conds)
    \/ \E conds \in BracketLists : LeftBracket(1, conds)
    \/ RightBracket(1)

SpecGroup == Init /\ [][NextGroup]_vars

(***************************************************************************)
(* SpecColumns: one builder; Columns and Values called between the         *)
(* order-checked clauses.                                                  *)
(***************************************************************************)
NextColumns ==
    \/ Opening(1)
    \/ \E tables \in FromLists : From(1, tables)
    \/ \E table \in JoinTables : InnerJoin(1, table)
    \/ On(1, <<>>)
    \/ Where(1, <<>>)
    \/ And(1, <<>>)
    \/ Or(1, <<>>)
    \/ \E cols \in ColumnLists : Columns(1, cols)
    \/ \E vals \in ValueLists : Values(1, vals)

SpecColumns == Init /\ [][NextColumns]_vars

(***************************************************************************)
(* SpecAppend: one builder; a SELECT statement with conditions and         *)
(* brackets is built and dispatched with FetchFrom.                        *)
(***************************************************************************)
NextAppend ==
    \/ Select(1, <<Users_id>>)
    \/ \E tables \in FromLists : From(1, tables)
    \/ \E conds \in DispatchConds : Where(1, conds)
    \/ \E conds \in BracketLists : LeftBracket(1, conds)
    \/ RightBracket(1)
    \/ FetchFrom(1, "none")

SpecAppend == Init /\ [][NextAppend]_vars

(***************************************************************************)
(* The claims.  The tables below are those of the specification (4.1 and   *)
(* 4.2), written independently of check_order and of validate_type.        *)
(***************************************************************************)
OrderedClauses == {"From", "Where", "And", "Or", "On"} \cup Joins

LegalPred(cl) ==
    CASE cl = "From" -> {"Select", "Delete"}
      [] cl = "Where" -> {"From", "Set", "Update"}
      [] cl = "And" -> {"Where", "Or", "And"}
      [] cl = "Or" -> {"Where", "And", "Or"}
      [] cl \in Joins -> {"From"}
      [] cl = "On" -> {"Join"}

NewState(cl) == IF cl \in Joins THEN "Join" ELSE cl

Keyword(cl) ==
    CASE cl = "From" -> " FROM "
      [] cl = "Where" -> " WHERE "
      [] cl = "And" -> " AND "
      [] cl = "Or" -> " OR "
      [] cl = "On" -> " ON "
      [] cl = "InnerJoin" -> " INNER JOIN "
      [] cl = "LeftJoin" -> " LEFT JOIN "
      [] cl = "RightJoin" -> " RIGHT JOIN "
      [] cl = "OuterJoin" -> " OUTER JOIN "
      [] cl = "Select" -> "SELECT "
      [] cl = "Update" -> "UPDATE "
      [] cl = "Insert" -> "INSERT INTO "
      [] cl = "Delete" -> "DELETE "
      [] cl = "CreateTable" -> "CREATE TABLE "
      [] cl = "DropTable" -> "DROP TABLE IF EXISTS "

\* The arguments of the call evaluate without an exception, so the method is called.
ArgsOk(conds) == EvalArgs(conds, last_method, data).outcome = "ok"

\* The step is a call of the method cl of builder 1.
Called(cl) ==
    \/ cl = "From" /\ \E tables \in FromLists : From(1, tables)
    \/ cl = "Where" /\ \E conds \in CondLists : ArgsOk(conds) /\ Where(1, conds)
    \/ cl = "And" /\ \E conds \in CondLists : ArgsOk(conds) /\ And(1, conds)
    \/ cl = "Or" /\ \E conds \in CondLists : ArgsOk(conds) /\ Or(1, conds)
    \/ cl = "On" /\ \E conds \in OnLists : ArgsOk(conds) /\ On(1, conds)
    \/ cl = "InnerJoin" /\ \E table \in JoinTables : InnerJoin(1, table)
    \/ cl = "LeftJoin" /\ \E table \in JoinTables : LeftJoin(1, table)
    \/ cl = "RightJoin" /\ \E table \in JoinTables : RightJoin(1, table)
    \/ cl = "OuterJoin" /\ \E table \in JoinTables : OuterJoin(1, table)
    \/ cl = "Select" /\ \E cols \in SelectLists : Select(1, cols)
    \/ cl = "Update" /\ \E table \in StatementTables : Update(1, table)
    \/ cl = "Insert" /\ \E table \in StatementTables : Insert(1, table)
    \/ cl = "Delete" /\ Delete(1)
    \/ cl = "CreateTable" /\ \E table \in CreateTables : \E all \in AllOrders(table) :
                                 CreateTable(1, table, all)
    \/ cl = "DropTable" /\ \E table \in StatementTables : DropTable(1, table)

\* The statement text of builder b: ''.join(sqlbuilder.sql).
Statement(b) == StrJoin([i \in DOMAIN sql[b] |-> sql[b][i].text])
\* The values the placeholders of builder b's fragments were rendered for, in order.
Bound(b) == StrJoin([i \in DOMAIN sql[b] |-> sql[b][i].bind])

\* The type rule of 4.1: the literal is of the kind the column accepts.
Accepts(self, right) ==
    CASE self.kind = "Integer" -> right.k = "num"
      [] self.kind = "Text" -> right.k = "str"
      [] self.kind = "DateTime" -> right.k = "str" /\ SplitLen(right.s) = 3

\* C1: a call of an order-checked clause in a state that is not one of its legal
\* predecessors fails with InvalidOrder and leaves the fragment list and the
\* last-clause state as they were.
C1_RejectedCallLeavesBuilder ==
    [][\A cl \in OrderedClauses :
          (Called(cl) /\ last_method \notin LegalPred(cl))
              => /\ ev'.outcome = "InvalidOrder"
                 /\ sql' = sql
                 /\ last_method' = last_method]_vars

C1_Witness ==
    /\ ev = Event("SqlBuilder", "InvalidOrder")
    /\ last_method = "Select"
    /\ Len(sql[1]) = 1

\* C2: after a call rejected with InvalidOrder the params are those before the
\* condition arguments of the rejected call were constructed.
C2_RejectedCallKeepsNoParam ==
    [][ev'.outcome = "InvalidOrder" => data' = data]_vars

\* C3: a call of an order-checked clause in one of its legal predecessor states is
\* accepted, moves the last-clause state as the transition table says and appends
\* its fragment at the end of the fragment list.
C3_LegalCallAcceptedAndAppended ==
    [][\A cl \in OrderedClauses :
          (Called(cl) /\ last_method \in LegalPred(cl))
              => /\ ev'.outcome = "ok"
                 /\ last_method' = NewState(cl)
                 /\ Len(sql'[1]) = Len(sql[1]) + 1
                 /\ SubSeq(sql'[1], 1, Len(sql[1])) = sql[1]
                 /\ Head(sql'[1][Len(sql'[1])].text) = Keyword(cl)]_vars

C3_Witness ==
    /\ last_method = "On"
    /\ ev = Event("SqlBuilder", "ok")
    /\ Len(sql[1]) = 4
    /\ Head(sql[1][4].text) = " ON "
    /\ Head(sql[1][3].text) = " LEFT JOIN "

\* C4: a statement-opening clause is accepted in every state; after it the
\* last-clause state is its own name, params is empty and the fragment list holds
\* only its own fragment.
C4_OpeningClauseResets ==
    [][\A cl \in Openers :
          Called(cl)
              => /\ ev'.outcome = "ok"
                 /\ last_method' = cl
                 /\ data' = <<>>
                 /\ Len(sql'[1]) = 1
                 /\ Head(sql'[1][1].text) = Keyword(cl)]_vars

C4_Witness ==
    /\ last_method = "Update"
    /\ ev = Event("SqlBuilder", "ok")
    /\ data = <<>>
    /\ Len(sql[1]) = 1
    /\ sql[1][1].text = <<"UPDATE ", "users", " SET ">>

\* C5: after accepted clause calls only, each condition written as an argument of
\* the call that consumes it, the statement text has as many '?' placeholders as
\* there are params, and the Nth placeholder was rendered for the Nth param.
C5_PlaceholdersMatchParams ==
    clean => /\ Count(Statement(1), "?") = Len(data)
             /\ Bound(1) = data

\* C6: in every state, == and != of a column against a literal its type rule
\* accepts push exactly that literal and render a '?' placeholder.
C6_EqualityPushesLiteral ==
    [][\A op \in {"eq", "ne"}, self \in LeftColumns, right \in Literals :
          (Accepts(self, right) /\ Cmp(op, self, right))
              => LET res == Compare(op, self, right, last_method, data)
                 IN  /\ ev'.outcome = "ok"
                     /\ data' = Append(data, right)
                     /\ Count(res.sql, "?") = 1]_vars

\* The text s ends with the text t.
EndsWith(s, t) == Len(s) >= Len(t) /\ SubSeq(s, Len(s) - Len(t) + 1, Len(s)) = t

\* C7: in every state, each of the six comparisons of a column against another
\* Column (the ordering of a Text column aside, which 4.1 forbids) pushes no
\* parameter and renders the other column's name in the text.
C7_ColumnOperandPushesNothing ==
    [][\A op \in CmpOps, self \in LeftColumns, right \in RightColumns :
          ((self.kind = "Text" => op \in {"eq", "ne"}) /\ Cmp(op, self, right))
              => LET res == Compare(op, self, right, last_method, data)
                 IN  /\ data' = data
                     /\ res.outcome = "ok"
                            => \/ EndsWith(res.sql, Qualified(right))
                               \/ EndsWith(res.sql, <<" ", right.column>>)]_vars

\* C8: an equality between two columns constructed while the last-clause state is
\* Join renders "T1.c = T2.c", with no placeholder and no parameter pushed.
C8_JoinEqualityInline ==
    [][\A self \in LeftColumns, right \in RightColumns :
          (last_method = "Join" /\ Cmp("eq", self, right))
              => LET res == Compare("eq", self, right, last_method, data)
                 IN  /\ ev'.outcome = "ok"
                     /\ res.sql = Qualified(self) \o <<" = ">> \o Qualified(right)
                     /\ data' = data]_vars

\* C9: in every state, the text a comparison with a literal renders is the same for
\* every literal the column's type rule accepts.
C9_TextIndependentOfLiteral ==
    \A op \in CmpOps, self \in LeftColumns, v1 \in Literals, v2 \in Literals :
        LET r1 == Compare(op, self, v1, last_method, data)
            r2 == Compare(op, self, v2, last_method, data)
        IN  (Accepts(self, v1) /\ Accepts(self, v2) /\ r1.outcome = "ok" /\ r2.outcome = "ok")
                => r1.sql = r2.sql

\* C10: each of the six comparisons of an Integer column fails with InvalidType
\* exactly when the operand is neither numeric nor a Column, and the failure
\* leaves params, the fragment list and the last-clause state unchanged.
C10_IntegerInvalidType ==
    [][\A op \in CmpOps, self \in LeftColumns, right \in Operands :
          (self.kind = "Integer" /\ ev'.cls = "IntegerColumn" /\ Cmp(op, self, right))
              => /\ (ev'.outcome = "InvalidType") <=> (right.k \notin {"num", "col"})
                 /\ ev'.outcome = "InvalidType"
                        => (data' = data /\ sql' = sql /\ last_method' = last_method)]_vars

C10_Witness ==
    /\ ev = Event("IntegerColumn", "InvalidType")
    /\ last_method = "Where"
    /\ data # <<>>

\* C11: each ordering operator of a Text column fails with InvalidType for every
\* operand (text, number or Column) in every last-clause state, and leaves params,
\* the fragment list and the last-clause state unchanged.
C11_TextOrderingInvalidType ==
    [][\A op \in {"lt", "le", "gt", "ge"}, self \in LeftColumns, right \in Operands :
          (self.kind = "Text" /\ ev'.cls = "StringColumn" /\ Cmp(op, self, right))
              => /\ ev'.outcome = "InvalidType"
                 /\ data' = data
                 /\ sql' = sql
                 /\ last_method' = last_method]_vars

C11_Witness ==
    /\ ev = Event("StringColumn", "InvalidType")
    /\ last_method = "Join"
    /\ data # <<>>
    /\ Len(sql[1]) = 3

\* C12: each of the six comparisons of a DateTime column with a literal succeeds
\* exactly when the literal is text that splits on '-' into three components;
\* otherwise it fails with InvalidType and params are unchanged.
C12_DateTimeLiteralShape ==
    [][\A op \in CmpOps, self \in LeftColumns, right \in Literals :
          (self.kind = "DateTime" /\ ev'.cls = "DateTimeColumn" /\ Cmp(op, self, right))
              => IF right.k = "str" /\ SplitLen(right.s) = 3
                 THEN ev'.outcome = "ok"
                 ELSE ev'.outcome = "InvalidType" /\ data' = data]_vars

C12_Witness ==
    /\ ev = Event("DateTimeColumn", "ok")
    /\ last_method = "Where"
    /\ data = <<Str(<<"2012", "-", "01", "-", "01">>)>>

\* C13: each of the six comparisons of a DateTime column with another Column is
\* accepted and returns a condition text; no exception is raised.
C13_DateTimeAcceptsColumn ==
    [][\A op \in CmpOps, self \in LeftColumns, right \in RightColumns :
          (self.kind = "DateTime" /\ ev'.cls = "DateTimeColumn" /\ Cmp(op, self, right))
              => ev'.outcome = "ok"]_vars

\* The text s holds the text t as a contiguous part.
Contains(s, t) ==
    \E i \in 1..(Len(s) - Len(t) + 1) : SubSeq(s, i, i + Len(t) - 1) = t

\* The fragments of builder 1 are those of Insert, Columns, Values, in this order.
InsertColumnsValues ==
    /\ Len(sql[1]) = 3
    /\ Head(sql[1][1].text) = "INSERT INTO "
    /\ Head(sql[1][2].text) = " ("
    /\ Head(sql[1][3].text) = "VALUES ("

\* C14: In and NotIn on a column of any kind, and Values, leave params unchanged
\* and put the literal values in the text they render; a statement built as
\* Insert.Columns.Values (and nothing else) is dispatched with empty params.
C14_InliningPushesNothing ==
    [][/\ \A self \in LeftColumns, arg \in InLists :
             /\ In(self, arg)
                   => /\ data' = data
                      /\ \A i \in DOMAIN arg : Contains(Column_In(self, arg), PyRepr(arg[i]))
             /\ NotIn(self, arg)
                   => /\ data' = data
                      /\ \A i \in DOMAIN arg : Contains(Column_NotIn(self, arg), PyRepr(arg[i]))
       /\ \A vals \in ValueLists :
             Values(1, vals)
                 => /\ data' = data
                    /\ ev'.outcome = "ok"
                    /\ \A i \in DOMAIN vals :
                           Contains(sql'[1][Len(sql'[1])].text, PyStr(vals[i]))
       /\ (clean /\ InsertColumnsValues /\ Execute(1, "none"))
             => drv'.data = <<>>]_vars

C14_Witness ==
    /\ drv.method = "Execute"
    /\ drv.data = <<>>
    /\ drv.sql = <<"INSERT INTO ", "users", " ", " (", "id", ", ", "login", ") ",
                   "VALUES (", "1", ", ", "'", "?", "'", ")">>
    /\ ev = Event("SQLiteDb", "ok")
    /\ clean

\* C15: after an accepted Set call the last-clause state is Set.
C15_SetRecordsItsName ==
    [][\A conds \in SetLists :
          (ArgsOk(conds) /\ Set(1, conds) /\ ev'.outcome = "ok")
              => last_method' = "Set"]_vars

\* C16: an equality or inequality that returns a text renders the bare column
\* name on its left side, and on its right side when the operand is a Column,
\* exactly when the last-clause state is Update or Set; in every other state it
\* renders the qualified table.column names.
C16_BareNamesInUpdate ==
    [][\A op \in {"eq", "ne"}, self \in LeftColumns, right \in Operands :
          Cmp(op, self, right)
              => LET res == Compare(op, self, right, last_method, data)
                     bare == last_method \in {"Update", "Set"}
                     left == IF bare THEN <<self.column>> ELSE Qualified(self)
                 IN  res.outcome = "ok"
                        => /\ SubSeq(res.sql, 1, Len(left)) = left
                           /\ right.k = "col"
                                 => EndsWith(res.sql, IF bare THEN <<right.column>>
                                                              ELSE Qualified(right))]_vars

\* C17: LeftBracket and RightBracket end without an exception in every
\* last-clause state, leave the last-clause state and params as they were when
\* the method was called (the conditions passed to LeftBracket pushed their
\* parameters when they were constructed), keep the fragments already present
\* and append only " (" and the condition text, or ") ".
C17_BracketsOnlyAppend ==
    [][/\ \A conds \in BracketLists :
             (ArgsOk(conds) /\ LeftBracket(1, conds))
                 => LET a == EvalArgs(conds, last_method, data)
                        n == Len(sql[1])
                    IN  /\ ev'.outcome = "ok"
                        /\ last_method' = last_method
                        /\ data' = a.data
                        /\ Len(sql'[1]) = n + 2
                        /\ SubSeq(sql'[1], 1, n) = sql[1]
                        /\ sql'[1][n + 1].text = <<" (">>
                        /\ sql'[1][n + 2].text = StrJoin(a.texts)
       /\ RightBracket(1)
             => /\ ev'.outcome = "ok"
                /\ last_method' = last_method
                /\ data' = data
                /\ Len(sql'[1]) = Len(sql[1]) + 1
                /\ SubSeq(sql'[1], 1, Len(sql[1])) = sql[1]
                /\ sql'[1][Len(sql'[1])].text = <<") ">>]_vars

C17_Witness ==
    /\ last_method = "Where"
    /\ Len(sql[1]) = 4
    /\ sql[1][3].text = <<" (">>
    /\ sql[1][4].text = <<"Users", ".", "id", " = ", "?">>
    /\ data = <<Num(1)>>

\* The place of a driver operation in the sequence of the driver contract.
Rank(call) ==
    CASE call = "open" -> 1
      [] call = "execute" -> 2
      [] call = "commit" -> 3
      [] call = "fetch" -> 4
      [] call = "close" -> 5

\* The driver operations the last dispatch invoked.
Invoked == {drv.calls[i] : i \in DOMAIN drv.calls}

\* C18: every dispatch invokes the driver operations in the order open, execute,
\* commit (optional), fetch (optional), close; each one only after those before it
\* were invoked, and close exactly once, last, on every exit path.
C18_DriverCallOrder ==
    drv.method # ""
        => /\ Head(drv.calls) = "open"
           /\ \A i, j \in DOMAIN drv.calls :
                  i < j => Rank(drv.calls[i]) < Rank(drv.calls[j])
           /\ ({"commit", "fetch"} \cap Invoked # {}) => "execute" \in Invoked
           /\ drv.calls[Len(drv.calls)] = "close"
           /\ Count(drv.calls, "close") = 1
           /\ drv.outcome = "ok" => "execute" \in Invoked

C18_Witness ==
    /\ drv.method = "FetchFrom"
    /\ drv.outcome = "DriverError"
    /\ drv.calls = <<"open", "execute", "close">>

\* C19: a dispatch by Execute never retrieves rows and commits when it ends
\* normally; a dispatch by FetchFrom or FetchConstructed never commits and
\* retrieves rows when it ends normally.
C19_CommitOrRows ==
    /\ drv.method = "Execute"
          => /\ "fetch" \notin Invoked
             /\ drv.outcome = "ok" => "commit" \in Invoked
    /\ drv.method \in {"FetchFrom", "FetchConstructed"}
          => /\ "commit" \notin Invoked
             /\ drv.outcome = "ok" => "fetch" \in Invoked

C19_Witness ==
    /\ drv.method = "Execute"
    /\ drv.outcome = "ok"
    /\ drv.calls = <<"open", "execute", "commit", "close">>
    /\ last_method = "From"

\* C20: FetchConstructed hands the driver the text of the assembled statement
\* (what FetchFrom dispatches in that state) and the caller's parameter list, and
\* leaves the fragment list, the last-clause state and the recorded output
\* columns unchanged.
C20_FetchConstructedReuses ==
    [][/\ \A fail \in Failures :
             (drv'.method = "FetchFrom" /\ FetchFrom(1, fail))
                 => drv'.sql = Statement(1)
       /\ \A newdata \in NewParams, fail \in Failures :
             (drv'.method = "FetchConstructed" /\ FetchConstructed(1, newdata, fail))
                 => /\ drv'.sql = Statement(1)
                    /\ drv'.data = newdata
                    /\ sql' = sql
                    /\ last_method' = last_method
                    /\ select_columns' = select_columns]_vars

C20_Witness ==
    /\ drv.method = "FetchConstructed"
    /\ drv.outcome = "ok"
    /\ drv.data = <<Num(2)>>
    /\ drv.sql = <<"SELECT ", "Users", ".", "id", " FROM ", "users",
                   " WHERE ", "Users", ".", "id", " = ", "?">>
    /\ last_method = "Where"

\* C27: == and != of a Text column fail with InvalidType exactly when the operand
\* is neither text nor a Column, and the failure leaves params unchanged.
C27_TextEqualityInvalidType ==
    [][\A op \in {"eq", "ne"}, self \in LeftColumns, right \in Operands :
          (self.kind = "Text" /\ ev'.cls = "StringColumn" /\ Cmp(op, self, right))
              => /\ (ev'.outcome = "InvalidType") <=> (right.k \notin {"str", "col"})
                 /\ ev'.outcome = "InvalidType" => data' = data]_vars

C27_Witness ==
    /\ ev = Event("StringColumn", "InvalidType")
    /\ last_method = "Update"
    /\ data # <<>>

\* C24: once the last-clause state is Where, And or Or, every And and Or call is
\* accepted (with or without conditions, brackets in between or not) and the
\* state stays within {Where, And, Or} until a statement-opening clause.
C24_ConditionChainStays ==
    [][(last_method \in {"Where", "And", "Or"})
          => /\ \A cl \in {"And", "Or"} :
                    Called(cl) => (ev'.outcome = "ok" /\ last_method' = cl)
             /\ last_method' \in {"Where", "And", "Or"} \cup Openers
             /\ last_method' \in Openers => (\E cl \in Openers : Called(cl))]_vars

C24_Witness ==
    /\ last_method = "Or"
    /\ Len(sql[1]) = 4
    /\ Head(sql[1][2].text) = " WHERE "
    /\ sql[1][3].text = <<") ">>
    /\ Head(sql[1][4].text) = " OR "

\* C25: in the state On, every call of Where, And, Or, From, On and of the four
\* join clauses is rejected with InvalidOrder, and the state is left only by a
\* statement-opening clause.
C25_OnIsFinal ==
    [][(last_method = "On")
          => /\ \A cl \in OrderedClauses : Called(cl) => ev'.outcome = "InvalidOrder"
             /\ (last_method' = "On" \/ (\E cl \in Openers : Called(cl)))]_vars

C25_Witness ==
    /\ last_method = "On"
    /\ ev = Event("SqlBuilder", "InvalidOrder")
    /\ Len(sql[1]) = 4
    /\ Head(sql[1][4].text) = " ON "

\* C26: Columns and Values end without an exception in every last-clause state
\* and leave the last-clause state unchanged.
C26_ColumnsValuesUnordered ==
    [][/\ \A cols \in ColumnLists :
             Columns(1, cols) => (ev'.outcome = "ok" /\ last_method' = last_method)
       /\ \A vals \in ValueLists :
             Values(1, vals) => (ev'.outcome = "ok" /\ last_method' = last_method)]_vars

C26_Witness ==
    /\ last_method = "Select"
    /\ Len(sql[1]) = 3
    /\ Head(sql[1][2].text) = "VALUES ("
    /\ Head(sql[1][3].text) = " ("
    /\ ev = Event("SqlBuilder", "ok")

\* C23: every accepted clause or bracket call that does not open a statement
\* keeps the fragments already present, in place, and adds its own at the end;
\* a dispatch hands the driver the concatenation of the fragments, in the order
\* of the list, and the current params.
C23_FragmentsAppendOnly ==
    [][/\ (ev'.cls = "SqlBuilder" /\ ev'.outcome = "ok"
             /\ ~(\E cl \in Openers : Called(cl)))
          => /\ Len(sql'[1]) > Len(sql[1])
             /\ SubSeq(sql'[1], 1, Len(sql[1])) = sql[1]
       /\ (ev'.cls = "SQLiteDb" /\ (\E fail \in Failures : FetchFrom(1, fail)))
          => /\ drv'.sql = Statement(1)
             /\ drv'.data = data
             /\ sql' = sql /\ data' = data]_vars

C23_Witness ==
    /\ drv.method = "FetchFrom"
    /\ drv.outcome = "ok"
    /\ drv.sql = <<"SELECT ", "Users", ".", "id", " FROM ", "users",
                   " (", "Users", ".", "id", " = ", "?">>
    /\ drv.data = <<Num(1)>>
    /\ Len(sql[1]) = 4

(***************************************************************************)
(* SpecRows: one builder; SELECT statements over every column list, also   *)
(* the list a table's `all` holds, fetched with FetchFrom.                 *)
(***************************************************************************)
RowLists == SelectLists \cup AllOrders(Managers)
RowFailures == {"none", "fetch"}

NextRows ==
    \/ \E cols \in RowLists : Select(1, cols)
    \/ \E tables \in FromLists : From(1, tables)
    \/ \E conds \in DispatchConds : Where(1, conds)
    \/ \E fail \in RowFailures : FetchFrom(1, fail)

SpecRows == Init /\ [][NextRows]_vars

\* C21: each row a fetch returns carries one named value per entry of the
\* recorded output-column list, in that order: as many attributes as columns,
\* and under the bare name of the i-th column the i-th cell of the cursor's row.
C21_RowPerColumn ==
    [][\A fail \in RowFailures :
        (FetchFrom(1, fail) /\ ev'.outcome = "ok") =>
            LET columns == select_columns[1][1]
                cursor == CursorRows(Len(columns))
            IN  /\ Len(drv'.rows) = Len(cursor)
                /\ \A r \in DOMAIN cursor :
                    /\ Cardinality(DOMAIN drv'.rows[r]) = Len(columns)
                    /\ \A i \in DOMAIN columns :
                        LET name == <<columns[i][Len(columns[i])]>>
                        IN  /\ name \in DOMAIN drv'.rows[r]
                            /\ drv'.rows[r][name] = cursor[r][i]]_vars

\* C28: the list passed to FetchConstructed replaces the shared params and stays
\* aliased to them: the call leaves the shared params holding the passed values
\* and being the caller's list, no later call ends the aliasing, a later FetchFrom
\* hands the driver what the caller's list holds, and the next statement-opening
\* clause leaves the caller's own list empty.
C28_CallerListAliased ==
    [][/\ \A newdata \in NewParams : \A fail \in Failures \ {"commit"} :
            FetchConstructed(1, newdata, fail) =>
                /\ data' = newdata
                /\ drv'.data = newdata
                /\ caller'.aliased
                /\ CallerList' = newdata
       /\ caller.aliased => caller'.aliased
       /\ \A fail \in Failures \ {"commit"} :
            (caller.aliased /\ FetchFrom(1, fail)) =>
                /\ drv'.data = CallerList
                /\ CallerList' = CallerList
       /\ (caller.aliased /\ Select(1, <<Users_id>>)) => CallerList' = <<>>]_vars

\* [1] was bound by Where, [2] passed to FetchConstructed; FetchFrom then sent [2],
\* and the following Select emptied the caller's list.
C28_Witness ==
    /\ caller.aliased
    /\ caller.given = <<Num(2)>>
    /\ last_method = "Select"
    /\ CallerList = <<>>
    /\ drv.method = "FetchFrom"
    /\ drv.data = <<Num(2)>>
    /\ drv.outcome = "ok"

(***************************************************************************)
(* SpecTwo: two builders; a SELECT statement is built and dispatched on    *)
(* builder 1 while clause calls on builder 2 interleave.                   *)
(***************************************************************************)
TwoConds == {<<<<"eq", Users_id, Num(1)>>>>}

NextTwo ==
    \/ \E b \in Builders : Select(b, <<Users_id>>)
    \/ \E b \in Builders : \E tables \in FromLists : From(b, tables)
    \/ \E conds \in TwoConds : Where(1, conds)
    \/ FetchFrom(1, "none")

SpecTwo == Init /\ [][NextTwo]_vars

\* The step is a clause call on builder b.
ClauseOn(b) ==
    \/ Select(b, <<Users_id>>)
    \/ \E tables \in FromLists : From(b, tables)
    \/ b = 1 /\ \E conds \in TwoConds : Where(1, conds)

\* The step is a call of From on builder b, of Where on builder 1.
FromOn(b) == \E tables \in FromLists : From(b, tables)
WhereOn1 == \E conds \in TwoConds : Where(1, conds)

\* The call of the step was accepted by the order check and appended its
\* fragment to builder b / was rejected and appended nothing.
AcceptedOn(b) == ev'.outcome = "ok" /\ Len(sql'[b]) = Len(sql[b]) + 1
RejectedOn(b) == ev'.outcome = "InvalidOrder" /\ sql' = sql /\ last_method' = last_method

\* C22 as stated: fragments, params and last-clause marker are shared by all
\* builders: a statement-opening clause on B leaves A without fragments and the
\* params empty, and the order check of A's next call reads the state B set.
C22_SharedContext ==
    [][/\ \A a, b \in Builders :
            (a # b /\ Select(b, <<Users_id>>)) =>
                /\ sql'[a] = <<>>
                /\ data' = <<>>
                /\ last_method' = "Select"
       /\ \A a \in Builders :
            FromOn(a) => IF last_method \in {"Select", "Delete"}
                         THEN AcceptedOn(a) ELSE RejectedOn(a)]_vars

\* C22 amended: params and last-clause marker are shared by all builders, the
\* fragments are not: a statement-opening clause on B empties the params bound for
\* A's statement and sets the marker, A's fragments stay as they were, and the
\* order check of A's next call is decided by the marker alone, whichever builder
\* set it.
C22_SharedParamsAndMarker ==
    [][/\ \A a, b \in Builders :
            (a # b /\ Select(b, <<Users_id>>)) =>
                /\ sql'[a] = sql[a]
                /\ data' = <<>>
                /\ last_method' = "Select"
       /\ \A a \in Builders :
            FromOn(a) => IF last_method \in {"Select", "Delete"}
                         THEN AcceptedOn(a) ELSE RejectedOn(a)
       /\ WhereOn1 => IF last_method \in {"From", "Set", "Update"}
                      THEN AcceptedOn(1) ELSE RejectedOn(1)]_vars

\* Builder 1 holds SELECT and FROM; after Select on builder 2 its Where was
\* rejected, and the parameter of the rejected call is the only one bound.
C22_Witness ==
    /\ Len(sql[1]) = 2
    /\ Head(sql[1][2].text) = " FROM "
    /\ Len(sql[2]) = 1
    /\ last_method = "Select"
    /\ ev.outcome = "InvalidOrder"
    /\ data = <<Num(1)>>

\* C29: each builder has its own fragment list, params and last_method are
\* shared: a clause call on one builder leaves the other builder's list as it
\* was; Select on builder 2 while builder 1 holds placeholders leaves them in
\* place and the params empty; and FetchFrom on builder 1, when it holds more
\* placeholders than there are params, hands the driver that text and those params.
C29_FragmentsPerBuilder ==
    [][/\ \A a, b \in Builders : (a # b /\ ClauseOn(b)) => sql'[a] = sql[a]
       /\ (Count(Statement(1), "?") > 0 /\ Select(2, <<Users_id>>)) =>
            /\ Count(Statement(1)', "?") = Count(Statement(1), "?")
            /\ data' = <<>>
            /\ Count(Statement(1)', "?") > Len(data')
       /\ (Count(Statement(1), "?") > Len(data) /\ FetchFrom(1, "none")) =>
            /\ drv'.sql = Statement(1)
            /\ drv'.data = data
            /\ Count(drv'.sql, "?") > Len(drv'.data)]_vars

\* SELECT .. FROM .. WHERE id = ? of builder 1 was dispatched with no parameter
\* after Select on builder 2.
C29_Witness ==
    /\ drv.method = "FetchFrom"
    /\ Count(drv.sql, "?") = 1
    /\ drv.data = <<>>
    /\ Len(sql[1]) = 3
    /\ Len(sql[2]) = 1
    /\ last_method = "Select"
====
